---- MODULE Spec2Model ----
(***************************************************************************)
(* Model of src/config.rs of the icm42670 driver: the closed variant sets  *)
(* (Address, AccelRange, GyroRange, PowerMode, AccelOdr, GyroOdr, GyroBw,  *)
(* AccelBw), their Bitfield implementations (BITMASK, bits), their Default *)
(* and TryFrom<u8> implementations and the as_f32 frequency tables.        *)
(*                                                                         *)
(* Variants are strings, bytes are the integers 0..255, frequencies are    *)
(* exact integers in units of 1/10000 Hz.                                  *)
(***************************************************************************)
EXTENDS Integers, Sequences, FiniteSets

\* ------------------------------------------------------------------------
\* u8 arithmetic
\* ------------------------------------------------------------------------

\* largest value of a u8
U8_MAX == 255

U8 == 0..U8_MAX

\* i-th bit of x
Bit(x, i) == (x \div (2^i)) % 2

\* a & b on u8
And8(a, b) ==
    LET B(i) == Bit(a, i) * Bit(b, i) * (2^i)
    IN  B(0) + B(1) + B(2) + B(3) + B(4) + B(5) + B(6) + B(7)

\* !a on u8
Not8(a) == U8_MAX - a

\* a | b on u8
Or8(a, b) == a + b - And8(a, b)

\* a << n on u8 (n < 8): the bits shifted past bit 7 are lost
Shl8(a, n) == (a * (2^n)) % (U8_MAX + 1)

\* a >> n on u8
Shr8(a, n) == a \div (2^n)

\* ------------------------------------------------------------------------
\* Result<Self, SensorError>
\* ------------------------------------------------------------------------

InvalidDiscriminant == "InvalidDiscriminant"

Ok(v) == [ok |-> TRUE, v |-> v, err |-> "none"]

Err(e) == [ok |-> FALSE, v |-> "none", err |-> e]

\* no call to try_from has returned yet
NoResult == [ok |-> FALSE, v |-> "none", err |-> "none"]

\* A match over integer literal patterns: arms is the sequence of
\* <<pattern, variant>> arms in source order, the first arm whose pattern
\* equals value is taken, the wildcard arm returns the error.
RECURSIVE Match(_, _)
Match(arms, value) ==
    IF arms = << >> THEN Err(InvalidDiscriminant)
    ELSE IF Head(arms)[1] = value THEN Ok(Head(arms)[2])
    ELSE Match(Tail(arms), value)

\* ------------------------------------------------------------------------
\* Address
\* ------------------------------------------------------------------------

Address == {"Primary", "Secondary"}

Address_as_u8(self) ==
    CASE self = "Primary"   -> 104
      [] self = "Secondary" -> 105

\* ------------------------------------------------------------------------
\* AccelRange
\* ------------------------------------------------------------------------

AccelRange == {"G2", "G4", "G8", "G16"}

AccelRange_as_u8(self) ==
    CASE self = "G2"  -> 3
      [] self = "G4"  -> 2
      [] self = "G8"  -> 1
      [] self = "G16" -> 0

AccelRange_BITMASK == 96

\* ACCEL_UI_FS_SEL occupies bits 6:5
AccelRange_SHIFT == 5

AccelRange_bits_shl4(self) == Shl8(AccelRange_as_u8(self), 4)

AccelRange_bits(self) == Shl8(AccelRange_as_u8(self), AccelRange_SHIFT)

AccelRange_default == "G16"

AccelRange_arms ==
    << <<0, "G16">>, <<1, "G8">>, <<2, "G4">>, <<3, "G2">> >>

AccelRange_try_from(value) == Match(AccelRange_arms, value)

\* ------------------------------------------------------------------------
\* GyroRange
\* ------------------------------------------------------------------------

GyroRange == {"Deg250", "Deg500", "Deg1000", "Deg2000"}

GyroRange_as_u8(self) ==
    CASE self = "Deg250"  -> 3
      [] self = "Deg500"  -> 2
      [] self = "Deg1000" -> 1
      [] self = "Deg2000" -> 0

GyroRange_BITMASK == 96

\* GYRO_UI_FS_SEL occupies bits 6:5
GyroRange_SHIFT == 5

GyroRange_bits(self) == Shl8(GyroRange_as_u8(self), GyroRange_SHIFT)

GyroRange_default == "Deg2000"

GyroRange_arms ==
    << <<0, "Deg2000">>, <<1, "Deg1000">>, <<2, "Deg500">>, <<3, "Deg250">> >>

GyroRange_try_from(value) == Match(GyroRange_arms, value)

\* ------------------------------------------------------------------------
\* PowerMode
\* ------------------------------------------------------------------------

PowerMode ==
    {"Sleep", "Standby", "AccelLowPower", "AccelLowNoise", "GyroLowNoise",
     "SixAxisLowNoise", "Idle"}

PowerMode_as_u8_dup(self) ==
    CASE self = "Sleep"           -> 0
      [] self = "Standby"         -> 4
      [] self = "AccelLowPower"   -> 2
      [] self = "AccelLowNoise"   -> 2
      [] self = "GyroLowNoise"    -> 12
      [] self = "SixAxisLowNoise" -> 15
      [] self = "Idle"            -> 16

PowerMode_as_u8(self) ==
    CASE self = "Sleep"           -> 0
      [] self = "Standby"         -> 4
      [] self = "AccelLowPower"   -> 2
      [] self = "AccelLowNoise"   -> 3
      [] self = "GyroLowNoise"    -> 12
      [] self = "SixAxisLowNoise" -> 15
      [] self = "Idle"            -> 16

PowerMode_BITMASK == 31

\* the discriminant is used unshifted
PowerMode_SHIFT == 0

PowerMode_bits(self) == PowerMode_as_u8(self)

PowerMode_default == "Sleep"

\* there is no arm for 0b10000 (Idle)
PowerMode_arms ==
    << <<0, "Sleep">>, <<4, "Standby">>, <<2, "AccelLowPower">>,
       <<3, "AccelLowNoise">>, <<12, "GyroLowNoise">>,
       <<15, "SixAxisLowNoise">> >>

PowerMode_try_from_coerce(value) ==
    LET r == Match(PowerMode_arms, value)
    IN  IF r.ok THEN r ELSE Ok("Sleep")

PowerMode_try_from(value) == Match(PowerMode_arms, value)

\* ------------------------------------------------------------------------
\* AccelOdr
\* ------------------------------------------------------------------------

AccelOdr ==
    {"Hz1600", "Hz800", "Hz400", "Hz200", "Hz100", "Hz50", "Hz25", "Hz12_5",
     "Hz6_25", "Hz3_125", "Hz1_5625"}

AccelOdr_as_u8(self) ==
    CASE self = "Hz1600"   -> 5
      [] self = "Hz800"    -> 6
      [] self = "Hz400"    -> 7
      [] self = "Hz200"    -> 8
      [] self = "Hz100"    -> 9
      [] self = "Hz50"     -> 10
      [] self = "Hz25"     -> 11
      [] self = "Hz12_5"   -> 12
      [] self = "Hz6_25"   -> 13
      [] self = "Hz3_125"  -> 14
      [] self = "Hz1_5625" -> 15

AccelOdr_as_f32_trunc(self) ==
    CASE self = "Hz1600"   -> 16000000
      [] self = "Hz800"    -> 8000000
      [] self = "Hz400"    -> 4000000
      [] self = "Hz200"    -> 2000000
      [] self = "Hz100"    -> 1000000
      [] self = "Hz50"     -> 500000
      [] self = "Hz25"     -> 250000
      [] self = "Hz12_5"   -> 125000
      [] self = "Hz6_25"   -> 62500
      [] self = "Hz3_125"  -> 31250
      [] self = "Hz1_5625" -> 15000

\* in units of 1/10000 Hz
AccelOdr_as_f32(self) ==
    CASE self = "Hz1600"   -> 16000000
      [] self = "Hz800"    -> 8000000
      [] self = "Hz400"    -> 4000000
      [] self = "Hz200"    -> 2000000
      [] self = "Hz100"    -> 1000000
      [] self = "Hz50"     -> 500000
      [] self = "Hz25"     -> 250000
      [] self = "Hz12_5"   -> 125000
      [] self = "Hz6_25"   -> 62500
      [] self = "Hz3_125"  -> 31250
      [] self = "Hz1_5625" -> 15625

AccelOdr_BITMASK_wide == 15 + 16

AccelOdr_BITMASK == 15

\* ACCEL_ODR occupies bits 3:0, the discriminant is used unshifted
AccelOdr_SHIFT == 0

AccelOdr_bits(self) == AccelOdr_as_u8(self)

AccelOdr_default_Hz1600 == "Hz1600"

AccelOdr_default == "Hz800"

AccelOdr_arms ==
    << <<5, "Hz1600">>, <<6, "Hz800">>, <<7, "Hz400">>, <<8, "Hz200">>,
       <<9, "Hz100">>, <<10, "Hz50">>, <<11, "Hz25">>, <<12, "Hz12_5">>,
       <<13, "Hz6_25">>, <<14, "Hz3_125">>, <<15, "Hz1_5625">> >>

AccelOdr_try_from(value) == Match(AccelOdr_arms, value)

\* ------------------------------------------------------------------------
\* GyroOdr
\* ------------------------------------------------------------------------

GyroOdr ==
    {"Hz1600", "Hz800", "Hz400", "Hz200", "Hz100", "Hz50", "Hz25", "Hz12_5"}

GyroOdr_as_u8(self) ==
    CASE self = "Hz1600" -> 5
      [] self = "Hz800"  -> 6
      [] self = "Hz400"  -> 7
      [] self = "Hz200"  -> 8
      [] self = "Hz100"  -> 9
      [] self = "Hz50"   -> 10
      [] self = "Hz25"   -> 11
      [] self = "Hz12_5" -> 12

\* in units of 1/10000 Hz
GyroOdr_as_f32(self) ==
    CASE self = "Hz1600" -> 16000000
      [] self = "Hz800"  -> 8000000
      [] self = "Hz400"  -> 4000000
      [] self = "Hz200"  -> 2000000
      [] self = "Hz100"  -> 1000000
      [] self = "Hz50"   -> 500000
      [] self = "Hz25"   -> 250000
      [] self = "Hz12_5" -> 125000

GyroOdr_BITMASK == 15

\* GYRO_ODR occupies bits 3:0, the discriminant is used unshifted
GyroOdr_SHIFT == 0

GyroOdr_bits(self) == GyroOdr_as_u8(self)

GyroOdr_default == "Hz800"

GyroOdr_arms ==
    << <<5, "Hz1600">>, <<6, "Hz800">>, <<7, "Hz400">>, <<8, "Hz200">>,
       <<9, "Hz100">>, <<10, "Hz50">>, <<11, "Hz25">>, <<12, "Hz12_5">> >>

GyroOdr_try_from_wide(value) ==
    Match(GyroOdr_arms \o << <<13, "Hz12_5">>, <<14, "Hz12_5">>,
                             <<15, "Hz12_5">> >>, value)

GyroOdr_try_from(value) == Match(GyroOdr_arms, value)

\* ------------------------------------------------------------------------
\* GyroBw and AccelBw
\* ------------------------------------------------------------------------

GyroBw ==
    {"Hz10000", "Hz180", "Hz121", "Hz73", "Hz53", "Hz34", "Hz25", "Hz16"}

GyroBw_as_u8(self) ==
    CASE self = "Hz10000" -> 0
      [] self = "Hz180"   -> 1
      [] self = "Hz121"   -> 2
      [] self = "Hz73"    -> 3
      [] self = "Hz53"    -> 4
      [] self = "Hz34"    -> 5
      [] self = "Hz25"    -> 6
      [] self = "Hz16"    -> 7

\* in units of 1/10000 Hz; Hz10000 means that the filter is bypassed
GyroBw_as_f32(self) ==
    CASE self = "Hz10000" -> 100000000
      [] self = "Hz180"   -> 1800000
      [] self = "Hz121"   -> 1210000
      [] self = "Hz73"    -> 730000
      [] self = "Hz53"    -> 530000
      [] self = "Hz34"    -> 340000
      [] self = "Hz25"    -> 250000
      [] self = "Hz16"    -> 160000

GyroBw_default == "Hz180"

GyroBw_BITMASK == 7

\* GYRO_UI_FILT_BW occupies bits 2:0, the discriminant is used unshifted
GyroBw_SHIFT == 0

GyroBw_bits(self) == GyroBw_as_u8(self)

GyroBw_arms ==
    << <<0, "Hz10000">>, <<1, "Hz180">>, <<2, "Hz121">>, <<3, "Hz73">>,
       <<4, "Hz53">>, <<5, "Hz34">>, <<6, "Hz25">>, <<7, "Hz16">> >>

GyroBw_try_from_swapped(value) ==
    Match(<< <<0, "Hz10000">>, <<1, "Hz180">>, <<2, "Hz121">>, <<3, "Hz73">>,
             <<4, "Hz53">>, <<5, "Hz25">>, <<6, "Hz34">>, <<7, "Hz16">> >>,
          value)

GyroBw_try_from(value) == Match(GyroBw_arms, value)

AccelBw ==
    {"Hz10000", "Hz180", "Hz121", "Hz73", "Hz53", "Hz34", "Hz25", "Hz16"}

AccelBw_as_u8(self) ==
    CASE self = "Hz10000" -> 0
      [] self = "Hz180"   -> 1
      [] self = "Hz121"   -> 2
      [] self = "Hz73"    -> 3
      [] self = "Hz53"    -> 4
      [] self = "Hz34"    -> 5
      [] self = "Hz25"    -> 6
      [] self = "Hz16"    -> 7

\* in units of 1/10000 Hz; Hz10000 means that the filter is bypassed
AccelBw_as_f32(self) ==
    CASE self = "Hz10000" -> 100000000
      [] self = "Hz180"   -> 1800000
      [] self = "Hz121"   -> 1210000
      [] self = "Hz73"    -> 730000
      [] self = "Hz53"    -> 530000
      [] self = "Hz34"    -> 340000
      [] self = "Hz25"    -> 250000
      [] self = "Hz16"    -> 160000

AccelBw_default == "Hz180"

AccelBw_BITMASK == 7

\* ACCEL_UI_FILT_BW occupies bits 2:0, the discriminant is used unshifted
AccelBw_SHIFT == 0

AccelBw_bits(self) == AccelBw_as_u8(self)

AccelBw_arms ==
    << <<0, "Hz10000">>, <<1, "Hz180">>, <<2, "Hz121">>, <<3, "Hz73">>,
       <<4, "Hz53">>, <<5, "Hz34">>, <<6, "Hz25">>, <<7, "Hz16">> >>

AccelBw_try_from_masking(value) == Match(AccelBw_arms, And8(value, 7))

AccelBw_try_from(value) == Match(AccelBw_arms, value)

\* ------------------------------------------------------------------------
\* The variant sets and their trait implementations
\* ------------------------------------------------------------------------

VariantSets ==
    {"Address", "AccelRange", "GyroRange", "PowerMode", "AccelOdr", "GyroOdr",
     "GyroBw", "AccelBw"}

\* the sets with impl Bitfield, impl Default and impl TryFrom<u8>
BitfieldSets == VariantSets \ {"Address"}

\* the sets with a method as_f32
FrequencySets == {"AccelOdr", "GyroOdr", "GyroBw", "AccelBw"}

Variants(s) ==
    CASE s = "Address"    -> Address
      [] s = "AccelRange" -> AccelRange
      [] s = "GyroRange"  -> GyroRange
      [] s = "PowerMode"  -> PowerMode
      [] s = "AccelOdr"   -> AccelOdr
      [] s = "GyroOdr"    -> GyroOdr
      [] s = "GyroBw"     -> GyroBw
      [] s = "AccelBw"    -> AccelBw

\* self as u8
as_u8(s, self) ==
    CASE s = "Address"    -> Address_as_u8(self)
      [] s = "AccelRange" -> AccelRange_as_u8(self)
      [] s = "GyroRange"  -> GyroRange_as_u8(self)
      [] s = "PowerMode"  -> PowerMode_as_u8(self)
      [] s = "AccelOdr"   -> AccelOdr_as_u8(self)
      [] s = "GyroOdr"    -> GyroOdr_as_u8(self)
      [] s = "GyroBw"     -> GyroBw_as_u8(self)
      [] s = "AccelBw"    -> AccelBw_as_u8(self)

\* Bitfield::BITMASK
BITMASK(s) ==
    CASE s = "AccelRange" -> AccelRange_BITMASK
      [] s = "GyroRange"  -> GyroRange_BITMASK
      [] s = "PowerMode"  -> PowerMode_BITMASK
      [] s = "AccelOdr"   -> AccelOdr_BITMASK
      [] s = "GyroOdr"    -> GyroOdr_BITMASK
      [] s = "GyroBw"     -> GyroBw_BITMASK
      [] s = "AccelBw"    -> AccelBw_BITMASK

\* the position of the field's lowest bit
SHIFT(s) ==
    CASE s = "AccelRange" -> AccelRange_SHIFT
      [] s = "GyroRange"  -> GyroRange_SHIFT
      [] s = "PowerMode"  -> PowerMode_SHIFT
      [] s = "AccelOdr"   -> AccelOdr_SHIFT
      [] s = "GyroOdr"    -> GyroOdr_SHIFT
      [] s = "GyroBw"     -> GyroBw_SHIFT
      [] s = "AccelBw"    -> AccelBw_SHIFT

\* Bitfield::bits
bits(s, self) ==
    CASE s = "AccelRange" -> AccelRange_bits(self)
      [] s = "GyroRange"  -> GyroRange_bits(self)
      [] s = "PowerMode"  -> PowerMode_bits(self)
      [] s = "AccelOdr"   -> AccelOdr_bits(self)
      [] s = "GyroOdr"    -> GyroOdr_bits(self)
      [] s = "GyroBw"     -> GyroBw_bits(self)
      [] s = "AccelBw"    -> AccelBw_bits(self)

\* Default::default
default(s) ==
    CASE s = "AccelRange" -> AccelRange_default
      [] s = "GyroRange"  -> GyroRange_default
      [] s = "PowerMode"  -> PowerMode_default
      [] s = "AccelOdr"   -> AccelOdr_default
      [] s = "GyroOdr"    -> GyroOdr_default
      [] s = "GyroBw"     -> GyroBw_default
      [] s = "AccelBw"    -> AccelBw_default

\* the arms of the match in TryFrom<u8>::try_from
arms(s) ==
    CASE s = "AccelRange" -> AccelRange_arms
      [] s = "GyroRange"  -> GyroRange_arms
      [] s = "PowerMode"  -> PowerMode_arms
      [] s = "AccelOdr"   -> AccelOdr_arms
      [] s = "GyroOdr"    -> GyroOdr_arms
      [] s = "GyroBw"     -> GyroBw_arms
      [] s = "AccelBw"    -> AccelBw_arms

\* TryFrom<u8>::try_from
try_from(s, value) ==
    CASE s = "AccelRange" -> AccelRange_try_from(value)
      [] s = "GyroRange"  -> GyroRange_try_from(value)
      [] s = "PowerMode"  -> PowerMode_try_from(value)
      [] s = "AccelOdr"   -> AccelOdr_try_from(value)
      [] s = "GyroOdr"    -> GyroOdr_try_from(value)
      [] s = "GyroBw"     -> GyroBw_try_from(value)
      [] s = "AccelBw"    -> AccelBw_try_from(value)

\* as_f32
as_f32(s, self) ==
    CASE s = "AccelOdr" -> AccelOdr_as_f32(self)
      [] s = "GyroOdr"  -> GyroOdr_as_f32(self)
      [] s = "GyroBw"   -> GyroBw_as_f32(self)
      [] s = "AccelBw"  -> AccelBw_as_f32(self)

\* The caller's readback of a field: the register byte masked with the
\* field's BITMASK and shifted down to the field's base.
field_of(s, r) == Shr8(And8(r, BITMASK(s)), SHIFT(s))

\* The caller's read-modify-write of a field: the field's bits are cleared
\* and the encoded variant is ORed in.
update_field(s, r, self) == Or8(And8(r, Not8(BITMASK(s))), bits(s, self))

\* the two fields that share the configuration register of a sensor
RangeField(sn) == IF sn = "accel" THEN "AccelRange" ELSE "GyroRange"

OdrField(sn) == IF sn = "accel" THEN "AccelOdr" ELSE "GyroOdr"

\* ------------------------------------------------------------------------
\* State
\* ------------------------------------------------------------------------

VARIABLES
    set,        \* the variant set the calls are made on
    pc,         \* the caller's position
    origin,     \* where the current input came from
    variant,    \* the variant handed to bits / as_f32 / as u8, or "none"
    raw,        \* the result of variant as u8, or -1
    byte,       \* the result of bits, or -1
    reg,        \* the register byte, or -1
    value,      \* the value handed to try_from, or -1
    result,     \* the result of try_from, or NoResult
    freq,       \* the result of as_f32, or -1
    sensor,     \* the sensor whose configuration register reg is, or "none"
    lastRange,  \* the range variant last written to reg, or "none"
    lastOdr     \* the ODR variant last written to reg, or "none"

vars ==
    <<set, pc, origin, variant, raw, byte, reg, value, result, freq, sensor,
      lastRange, lastOdr>>

calls == <<origin, variant, raw, byte, value, result, freq>>

regs == <<sensor, lastRange, lastOdr>>

TypeOK ==
    /\ set \in VariantSets
    /\ pc \in {"idle", "selected", "cast", "encoded", "frequency", "fetched",
               "extracted", "decoded", "rewritten", "updated", "readback"}
    /\ origin \in {"none", "caller", "default", "register", "unmasked"}
    /\ variant \in Variants(set) \cup {"none"}
    /\ raw \in U8 \cup {-1}
    /\ byte \in U8 \cup {-1}
    /\ reg \in U8 \cup {-1}
    /\ value \in U8 \cup {-1}
    /\ result \in {NoResult, Err(InvalidDiscriminant)}
                    \cup {Ok(v) : v \in Variants(set)}
    /\ freq \in Nat \cup {-1}
    /\ sensor \in {"none", "accel", "gyro"}
    /\ lastRange \in AccelRange \cup GyroRange \cup {"none"}
    /\ lastOdr \in AccelOdr \cup GyroOdr \cup {"none"}

\* ------------------------------------------------------------------------
\* Calls of the functions of one variant set
\* ------------------------------------------------------------------------

Idle ==
    /\ pc = "idle"
    /\ origin = "none"
    /\ variant = "none"
    /\ raw = -1
    /\ byte = -1
    /\ value = -1
    /\ result = NoResult
    /\ freq = -1

Init ==
    /\ set \in VariantSets
    /\ Idle
    /\ reg = -1
    /\ sensor = "none"
    /\ lastRange = "none"
    /\ lastOdr = "none"

\* the caller picks a variant
Select(v) ==
    /\ pc = "idle"
    /\ pc' = "selected"
    /\ origin' = "caller"
    /\ variant' = v
    /\ UNCHANGED <<set, raw, byte, reg, value, result, freq, regs>>

\* the caller asks for Default::default()
Default ==
    /\ pc = "idle"
    /\ set \in BitfieldSets
    /\ pc' = "selected"
    /\ origin' = "default"
    /\ variant' = default(set)
    /\ UNCHANGED <<set, raw, byte, reg, value, result, freq, regs>>

\* variant as u8
Cast ==
    /\ pc = "selected"
    /\ pc' = "cast"
    /\ raw' = as_u8(set, variant)
    /\ UNCHANGED <<set, origin, variant, byte, reg, value, result, freq, regs>>

\* variant.bits()
Bits ==
    /\ pc \in {"selected", "cast"}
    /\ set \in BitfieldSets
    /\ pc' = "encoded"
    /\ byte' = bits(set, variant)
    /\ UNCHANGED <<set, origin, variant, raw, reg, value, result, freq, regs>>

\* variant.as_f32()
AsF32 ==
    /\ pc \in {"selected", "cast"}
    /\ set \in FrequencySets
    /\ pc' = "frequency"
    /\ freq' = as_f32(set, variant)
    /\ UNCHANGED <<set, origin, variant, raw, byte, reg, value, result, regs>>

\* the caller reads a register byte from the device
Fetch(r) ==
    /\ pc = "idle"
    /\ set \in BitfieldSets
    /\ pc' = "fetched"
    /\ origin' = "register"
    /\ reg' = r
    /\ UNCHANGED <<set, variant, raw, byte, value, result, freq, regs>>

\* the caller masks the field out of the encoded byte or of the register
Extract ==
    /\ pc \in {"encoded", "fetched"}
    /\ pc' = "extracted"
    /\ value' = field_of(set, IF pc = "encoded" THEN byte ELSE reg)
    /\ UNCHANGED <<set, origin, variant, raw, byte, reg, result, freq, regs>>

\* the caller hands over a byte that it has not masked
Unmasked(b) ==
    /\ pc = "idle"
    /\ set \in BitfieldSets
    /\ pc' = "extracted"
    /\ origin' = "unmasked"
    /\ value' = b
    /\ UNCHANGED <<set, variant, raw, byte, reg, result, freq, regs>>

\* Self::try_from(value)
TryFrom ==
    /\ pc = "extracted"
    /\ pc' = "decoded"
    /\ result' = try_from(set, value)
    /\ UNCHANGED <<set, origin, variant, raw, byte, reg, value, freq, regs>>

\* the decoded variant is encoded again
Rebits ==
    /\ pc = "decoded"
    /\ result.ok
    /\ pc' = "rewritten"
    /\ byte' = bits(set, result.v)
    /\ UNCHANGED <<set, origin, variant, raw, reg, value, result, freq, regs>>

\* the caller is done with the values
Return ==
    /\ pc \in {"cast", "encoded", "frequency", "decoded", "rewritten"}
    /\ pc' = "idle"
    /\ origin' = "none"
    /\ variant' = "none"
    /\ raw' = -1
    /\ byte' = -1
    /\ reg' = -1
    /\ value' = -1
    /\ result' = NoResult
    /\ freq' = -1
    /\ UNCHANGED <<set, regs>>

Next ==
    \/ \E v \in Variants(set) : Select(v)
    \/ Default
    \/ Cast
    \/ Bits
    \/ AsF32
    \/ \E r \in U8 : Fetch(r)
    \/ Extract
    \/ \E b \in U8 : Unmasked(b)
    \/ TryFrom
    \/ Rebits
    \/ Return

Spec == Init /\ [][Next]_vars

\* ------------------------------------------------------------------------
\* Read-modify-write of the two fields of one configuration register
\* ------------------------------------------------------------------------

InitReg ==
    /\ sensor \in {"accel", "gyro"}
    /\ set = RangeField(sensor)
    /\ reg \in U8
    /\ lastRange = "none"
    /\ lastOdr = "none"
    /\ Idle

\* reg = (reg & !BITMASK) | v.bits() for the range field
UpdateRange(v) ==
    /\ set' = RangeField(sensor)
    /\ pc' = "updated"
    /\ reg' = update_field(RangeField(sensor), reg, v)
    /\ lastRange' = v
    /\ value' = -1
    /\ result' = NoResult
    /\ UNCHANGED <<origin, variant, raw, byte, freq, sensor, lastOdr>>

\* reg = (reg & !BITMASK) | v.bits() for the ODR field
UpdateOdr(v) ==
    /\ set' = OdrField(sensor)
    /\ pc' = "updated"
    /\ reg' = update_field(OdrField(sensor), reg, v)
    /\ lastOdr' = v
    /\ value' = -1
    /\ result' = NoResult
    /\ UNCHANGED <<origin, variant, raw, byte, freq, sensor, lastRange>>

\* Self::try_from((reg & BITMASK) >> shift) for the field s
Readback(s) ==
    /\ set' = s
    /\ pc' = "readback"
    /\ value' = field_of(s, reg)
    /\ result' = try_from(s, field_of(s, reg))
    /\ UNCHANGED <<origin, variant, raw, byte, freq, reg, regs>>

NextReg ==
    \/ \E v \in Variants(RangeField(sensor)) : UpdateRange(v)
    \/ \E v \in Variants(OdrField(sensor)) : UpdateOdr(v)
    \/ \E s \in {RangeField(sensor), OdrField(sensor)} : Readback(s)

SpecReg == InitReg /\ [][NextReg]_vars

\* ------------------------------------------------------------------------
\* The documented register layout, used to state the properties
\* ------------------------------------------------------------------------

RangeSets == {"AccelRange", "GyroRange"}

OdrSets == {"AccelOdr", "GyroOdr"}

BwSets == {"AccelBw", "GyroBw"}

\* bit offset of a field: bits 6:5 for the ranges, the low bits otherwise
DocShift(s) == IF s \in RangeSets THEN 5 ELSE 0

\* 0b0110_0000, 0b0001_1111, 0b0000_1111, 0b0000_0111
DocMask(s) ==
    CASE s \in RangeSets -> 96
      [] s = "PowerMode" -> 31
      [] s \in OdrSets   -> 15
      [] s \in BwSets    -> 7

DocDefault(s) ==
    CASE s = "PowerMode"  -> "Sleep"
      [] s = "AccelRange" -> "G16"
      [] s = "GyroRange"  -> "Deg2000"
      [] s \in OdrSets    -> "Hz800"
      [] s \in BwSets     -> "Hz180"

\* the discriminant of the reset value: 0b00000, 0, 0b0110, 0b001
DocReset(s) ==
    CASE s = "PowerMode" -> 0
      [] s \in RangeSets -> 0
      [] s \in OdrSets   -> 6
      [] s \in BwSets    -> 1

\* the legal 5-bit power mode values
DocPowerModes == {0, 4, 2, 3, 12, 15, 16}

\* the arms of try_from whose pattern equals b
Matching(s, b) == {i \in DOMAIN arms(s) : arms(s)[i][1] = b}

\* ------------------------------------------------------------------------
\* Properties
\* ------------------------------------------------------------------------

\* C1: Round trip. For every variant v of every variant set with a decode
\* operation (PowerMode with its 7 variants, Idle included), the encoded byte
\* masked with the field's mask and shifted right by the field's offset
\* (5 for the ranges, 0 otherwise) decodes to Ok(v).
C1_RoundTrip ==
    (pc = "decoded" /\ origin \in {"caller", "default"}) =>
        /\ value = Shr8(And8(byte, DocMask(set)), DocShift(set))
        /\ result = Ok(variant)

\* C2: Mask containment and bit position. The encoded byte of every variant
\* has no bit outside the field's mask, and equals the raw discriminant shifted
\* left by the field's offset; the masks are the documented ones.
C2_MaskContainment ==
    (pc = "encoded") =>
        /\ BITMASK(set) = DocMask(set)
        /\ And8(byte, Not8(DocMask(set))) = 0
        /\ byte = as_u8(set, variant) * (2 ^ DocShift(set))
        /\ raw # -1 => byte = raw * (2 ^ DocShift(set))

C2_Witness ==
    /\ pc = "encoded"
    /\ set = "AccelRange"
    /\ variant = "G2"
    /\ raw = 3
    /\ byte = 96

\* C3: PowerMode decode rejection. Every 5-bit value outside
\* {0, 4, 2, 3, 12, 15, 16} (25 values) decodes to the error
\* InvalidDiscriminant, never to a variant.
C3_PowerModeRejection ==
    /\ Cardinality((0..31) \ DocPowerModes) = 25
    /\ (pc = "decoded" /\ set = "PowerMode"
            /\ value \in (0..31) \ DocPowerModes) =>
          result = Err(InvalidDiscriminant)

C3_Witness ==
    /\ pc = "decoded"
    /\ set = "PowerMode"
    /\ value = 1
    /\ result = Err(InvalidDiscriminant)

\* C4: ODR accept sets. Over all 8-bit inputs, AccelOdr decodes exactly the
\* 11 codes 5..15 and GyroOdr exactly the 8 codes 5..12; every other input
\* gives InvalidDiscriminant.
C4_OdrAcceptSets ==
    (pc = "decoded" /\ set \in OdrSets) =>
        /\ set = "AccelOdr" => (result.ok <=> value \in 5..15)
        /\ set = "GyroOdr" => (result.ok <=> value \in 5..12)
        /\ ~result.ok => result = Err(InvalidDiscriminant)

C4_Witness ==
    /\ pc = "decoded"
    /\ set = "GyroOdr"
    /\ value = 13
    /\ result = Err(InvalidDiscriminant)

\* C5: Decode totality boundary. AccelBw and GyroBw decode every input 0..7,
\* AccelRange and GyroRange every input 0..3; every other 8-bit input gives
\* InvalidDiscriminant.
C5_TotalityBoundary ==
    (pc = "decoded" /\ set \in BwSets \cup RangeSets) =>
        /\ set \in BwSets => (result.ok <=> value \in 0..7)
        /\ set \in RangeSets => (result.ok <=> value \in 0..3)
        /\ ~result.ok => result = Err(InvalidDiscriminant)

C5_Witness ==
    /\ pc = "decoded"
    /\ set = "AccelBw"
    /\ origin = "unmasked"
    /\ value = 8
    /\ result = Err(InvalidDiscriminant)

\* C6: Default consistency. The default of each variant set is the documented
\* one (Sleep, G16, Deg2000, Hz800, the 180 Hz bandwidth), its discriminant is
\* the documented reset value (0b00000, 0, 0b0110, 0b001), and decoding its
\* encoding returns it.
C6_DefaultConsistency ==
    (origin = "default") =>
        /\ variant = DocDefault(set)
        /\ pc = "cast" => raw = DocReset(set)
        /\ pc = "encoded" => byte = DocReset(set) * (2 ^ DocShift(set))
        /\ (pc = "frequency" /\ set \in BwSets) => freq = 180 * 10000
        /\ pc = "extracted" => value = DocReset(set)
        /\ pc = "decoded" => result = Ok(DocDefault(set))

C6_Witness ==
    /\ origin = "default"
    /\ pc = "decoded"
    /\ set = "AccelOdr"
    /\ byte = 6
    /\ result = Ok("Hz800")

\* C7: Disjoint discriminant sets. Within each variant set no two distinct
\* variants have the same raw discriminant, so no two are encoded alike, and
\* no input of decode is matched by arms of two variants.
C7_DisjointDiscriminants ==
    /\ pc = "cast" =>
          \A w \in Variants(set) : as_u8(set, w) = raw => w = variant
    /\ pc = "encoded" =>
          \A w \in Variants(set) : bits(set, w) = byte => w = variant
    /\ pc = "decoded" =>
          Cardinality({arms(set)[i][2] : i \in Matching(set, value)}) <= 1

C7_Witness ==
    /\ pc = "cast"
    /\ set = "PowerMode"
    /\ variant = "AccelLowNoise"
    /\ raw = 3

\* C8: ODR code/frequency ordering. The AccelOdr discriminants are the codes
\* 5..15 and the GyroOdr discriminants the codes 5..12, a lower code has a
\* higher frequency, the frequency at code c+1 is half of the one at code c
\* starting from 1600 Hz at code 5, and GyroOdr reports the frequency of
\* AccelOdr at the shared codes (frequencies in units of 1/10000 Hz).
C8_OdrOrdering ==
    (set \in OdrSets /\ raw # -1) =>
        /\ set = "AccelOdr" =>
              /\ raw \in 5..15
              /\ \A c \in 5..15 : \E w \in AccelOdr : AccelOdr_as_u8(w) = c
        /\ set = "GyroOdr" =>
              /\ raw \in 5..12
              /\ \A c \in 5..12 : \E w \in GyroOdr : GyroOdr_as_u8(w) = c
        /\ pc = "frequency" =>
              /\ freq * (2 ^ (raw - 5)) = 1600 * 10000
              /\ \A w \in Variants(set) :
                    /\ as_u8(set, w) < raw => as_f32(set, w) > freq
                    /\ as_u8(set, w) = raw + 1 => 2 * as_f32(set, w) = freq
              /\ set = "GyroOdr" =>
                    \A w \in AccelOdr :
                        AccelOdr_as_u8(w) = raw => AccelOdr_as_f32(w) = freq

C8_Witness ==
    /\ pc = "frequency"
    /\ set = "AccelOdr"
    /\ variant = "Hz1_5625"
    /\ raw = 15
    /\ freq = 15625

\* The worked example of the power-mode register: the register byte r
\* masks to 0b01111, which decodes to SixAxisLowNoise, which encodes to
\* 0b00001111.
PowerModeExample(r) ==
    (set = "PowerMode" /\ origin = "register" /\ reg = r) =>
        /\ pc \in {"extracted", "decoded", "rewritten"} => value = 15
        /\ pc \in {"decoded", "rewritten"} => result = Ok("SixAxisLowNoise")
        /\ pc = "rewritten" => byte = 15

\* If decoding the input b returns Ok(v), the discriminant of v is b and
\* encoding v gives b shifted left by the field's offset; for a register
\* byte r whose masked field decodes, the re-encoded byte is r masked with
\* the field's mask.
DecodeThenEncode ==
    /\ (pc = "decoded" /\ result.ok) => as_u8(set, result.v) = value
    /\ pc = "rewritten" =>
          /\ byte = value * (2 ^ DocShift(set))
          /\ origin = "register" => byte = And8(reg, DocMask(set))

\* C9 as stated: decode-then-encode consistency, with the register byte
\* 0b01011111 as the example that masks to 0b01111.
C9_DecodeThenEncode_Stated == DecodeThenEncode /\ PowerModeExample(95)

\* C9: Decode-then-encode consistency. If decode(b) returns Ok(v) then
\* encoding v gives b shifted left by the field's offset, a register byte
\* whose masked field decodes re-encodes to its masked bits, as in
\* 0b01001111 -> 0b01111 -> SixAxisLowNoise -> 0b00001111; decode never
\* returns a variant whose discriminant differs from its input.
C9_DecodeThenEncode == DecodeThenEncode /\ PowerModeExample(79)

C9_Witness ==
    /\ pc = "rewritten"
    /\ set = "PowerMode"
    /\ origin = "register"
    /\ reg = 79
    /\ value = 15
    /\ result = Ok("SixAxisLowNoise")
    /\ byte = 15

\* reading a field back returns the variant that was written to it last
ReadbackReturnsLastWritten ==
    /\ And8(BITMASK(RangeField(sensor)), BITMASK(OdrField(sensor))) = 0
    /\ (pc = "readback" /\ set \in RangeSets /\ lastRange # "none") =>
          result = Ok(lastRange)
    /\ (pc = "readback" /\ set \in OdrSets /\ lastOdr # "none") =>
          result = Ok(lastOdr)

\* an update of a field changes no bit outside the field's mask
UpdateFrame ==
    (pc' = "updated") =>
        /\ And8(reg', Not8(DocMask(set'))) = And8(reg, Not8(DocMask(set')))
        /\ And8(reg', 128 + 16) = And8(reg, 128 + 16)
        /\ set' \in RangeSets => And8(reg', 15) = And8(reg, 15)
        /\ set' \in OdrSets => And8(reg', 96) = And8(reg, 96)

\* C10: Field coexistence under read-modify-write. The range mask and the
\* ODR mask are disjoint; an update of a field leaves every bit outside the
\* field's mask unchanged (the other field, bit 7 and bit 4), and reading a
\* field back after any sequence of updates returns the variant that was
\* written to it last.
C10_FieldCoexistence == [](ReadbackReturnsLastWritten) /\ [][UpdateFrame]_vars

C10_Witness ==
    /\ pc = "readback"
    /\ sensor = "accel"
    /\ set = "AccelRange"
    /\ lastRange = "G4"
    /\ lastOdr = "Hz6_25"
    /\ reg = 128 + 64 + 16 + 13
    /\ result = Ok("G4")

====
